---- MODULE Spec2Model ----
(***************************************************************************)
(* A model of the build / CI / deploy automation scripts:                  *)
(*   build_automation.py  (class BuildAutomation, __main__)                *)
(*   ci_integration.py    (get_ci_environment, setup_ci_config, main)      *)
(*   deploy_to_k8s.py     (class KubernetesDeployer, __main__)             *)
(* One behaviour is one run of one of the three programs.  Every call of   *)
(* subprocess.run is one step whose result (exit 0, non-zero exit, tool    *)
(* not found) is chosen nondeterministically; exceptions propagate as in   *)
(* Python: caught where the code has a matching except clause, otherwise   *)
(* they end the process with exit status 1.                                *)
(***************************************************************************)
EXTENDS Integers, Sequences, FiniteSets, TLC

VARIABLES
    prog,         \* which program runs: "ci", "build" or "deploy"
    env,          \* os.environ: a function from the names that are set
    cfgfile,      \* build_config.json: [state, data]
    fs,           \* files on disk: a function from paths to contents
    pc,           \* position of the program
    log,          \* the operations performed so far, in order
    self,         \* fields of the BuildAutomation / KubernetesDeployer object
    image_tag,    \* run_build's local image_tag
    full_image,   \* run_build's local full_image
    git_info,     \* create_build_metadata: result of get_git_info so far
    todo,         \* apply_manifests: manifests not yet applied
    ret,          \* value returned by run_build / deploy
    exc,          \* the uncaught exception, if any
    exit_status,  \* process exit status
    out           \* messages printed

vars == <<prog, env, cfgfile, fs, pc, log, self, image_tag, full_image,
          git_info, todo, ret, exc, exit_status, out>>

----------------------------------------------------------------------------
(* Values *)

None == "None"

\* results of subprocess.run: exit 0, non-zero exit, executable not found
RC == {"ok", "nonzero", "notfound"}

EmptyDict == [k \in {} |-> None]

\* dict.get(key, default) / os.getenv(name, default)
Get(d, k, default) == IF k \in DOMAIN d THEN d[k] ELSE default

\* the dict d with d[k] = v
Put(d, k, v) == [x \in DOMAIN d \cup {k} |-> IF x = k THEN v ELSE d[x]]

\* all dicts made of a subset of the keys of the dict full
SubDicts(full) == { [k \in ks |-> full[k]] : ks \in SUBSET DOMAIN full }

----------------------------------------------------------------------------
(* Inputs of a run, drawn from small sets *)

Programs == {"ci", "build", "deploy"}

\* branch variables read by ci_integration.main
BranchEnvs ==
    { EmptyDict,
      [GIT_BRANCH |-> "main"],
      [GIT_BRANCH |-> "feature/x"],
      [CI_COMMIT_BRANCH |-> "master"],
      [GIT_BRANCH |-> "feature/x", CI_COMMIT_BRANCH |-> "master"] }

\* override variables read by setup_ci_config; numbers are strings of digits
OverrideEnv ==
    [APP_NAME |-> "svc", DOCKER_REGISTRY |-> "reg.io",
     APP_PORT |-> <<"9", "0", "9", "0">>, REPLICAS |-> <<"5">>]

Merge(a, b) ==
    [k \in DOMAIN a \cup DOMAIN b |-> IF k \in DOMAIN b THEN b[k] ELSE a[k]]

\* the override variables that are set: none, a name, a number, or all
OverrideEnvs ==
    { o \in SubDicts(OverrideEnv) :
        DOMAIN o \in {{}, {"APP_NAME"}, {"APP_PORT"}, DOMAIN OverrideEnv} }

\* runs hosted by a CI platform: its signal variable and its branch variable
PlatformEnvs ==
    { [JENKINS_HOME |-> "/var/jenkins", GIT_BRANCH |-> "main"],
      [GITLAB_CI |-> "true", CI_COMMIT_BRANCH |-> "main"],
      [GITHUB_ACTIONS |-> "true", GITHUB_REF_NAME |-> "main"] }

\* a numeric override that is not a number
MalformedEnvs == { [GIT_BRANCH |-> "main", APP_PORT |-> <<"a", "b", "c">>] }

Environments ==
    { Merge(b, o) : b \in BranchEnvs, o \in OverrideEnvs }
        \cup PlatformEnvs \cup MalformedEnvs

\* contents of build_config.json when it parses
ConfigObjects ==
    { EmptyDict,
      [app_name |-> "cfgapp"],
      [app_name |-> "cfgapp", docker_registry |-> "cfg.io", port |-> 7000,
       replicas |-> 2, build_dir |-> "out"] }

ConfigFiles ==
    { [state |-> "absent", data |-> EmptyDict],
      [state |-> "malformed", data |-> EmptyDict] }
    \cup { [state |-> "ok", data |-> d] : d \in ConfigObjects }

\* stdout of `git rev-parse --short HEAD`, as chunks of text
GitShortOutputs == { <<"abc1234", "\n">> }
\* stdout of `git rev-parse HEAD` and of `git rev-parse --abbrev-ref HEAD`
GitCommitOutputs == { <<"abc1234def", "\n">> }
GitBranchOutputs == { <<"main", "\n">> }
\* datetime.now().strftime('%Y%m%d%H%M%S')
Timestamps == { "20240101120000" }

\* a path: directory, stem and suffix of the file name
Path(dir, stem, suffix) == [dir |-> dir, stem |-> stem, suffix |-> suffix]
PathStr(p) == p.dir \o "/" \o p.stem \o p.suffix

Stale == [kind |-> "stale"]

\* how many stray manifests may lie in build/ before the run
MaxStale == 1

StaleFiles == { Path("build", "old" \o ToString(i), ".yaml") : i \in 1..MaxStale }
EarlierBuild ==
    { Path("build", "deployment", ".yaml"), Path("build", "service", ".yaml"),
      Path("build", "build_metadata", ".json") }

\* files on disk before the run: the output of an earlier build or not,
\* and any of the stray manifests
InitialDisks ==
    { [p \in b \cup st |-> Stale] : b \in {{}, EarlierBuild}, st \in SUBSET StaleFiles }

----------------------------------------------------------------------------
(* Helpers *)

IsSpace(c) == c \in {" ", "\n", "\t"}

RECURSIVE LStrip(_)
LStrip(s) == IF s # <<>> /\ IsSpace(Head(s)) THEN LStrip(Tail(s)) ELSE s

RECURSIVE RStrip(_)
RStrip(s) ==
    IF s # <<>> /\ IsSpace(s[Len(s)]) THEN RStrip(SubSeq(s, 1, Len(s) - 1)) ELSE s

RECURSIVE Join(_)
Join(s) == IF s = <<>> THEN "" ELSE Head(s) \o Join(Tail(s))

\* str.strip() of a text given as chunks
Strip(s) == Join(RStrip(LStrip(s)))

\* one entry of the log: a subprocess.run call or an internal operation
Call(argv, rc) == [op |-> "subprocess.run", argv |-> argv, rc |-> rc]
Op(name, arg, rc) == [op |-> name, argv |-> <<arg>>, rc |-> rc]

NoSelf ==
    [config |-> EmptyDict, build_dir |-> None, app_name |-> None,
     version |-> None, namespace |-> None]

\* an uncaught exception ends the program: the interpreter prints the
\* traceback and exits with status 1
Raise(e) == /\ exc' = e
            /\ pc' = "raised"

----------------------------------------------------------------------------
(* ci_integration.py *)

Digits == {"0", "1", "2", "3", "4", "5", "6", "7", "8", "9"}

DigitVal(c) ==
    CASE c = "0" -> 0 [] c = "1" -> 1 [] c = "2" -> 2 [] c = "3" -> 3
      [] c = "4" -> 4 [] c = "5" -> 5 [] c = "6" -> 6 [] c = "7" -> 7
      [] c = "8" -> 8 [] c = "9" -> 9

\* int(s) succeeds on a non-empty string of decimal digits
IsInt(s) == s # <<>> /\ \A i \in 1..Len(s) : s[i] \in Digits

RECURSIVE ParseInt(_)
ParseInt(s) ==
    IF s = <<>> THEN 0
    ELSE ParseInt(SubSeq(s, 1, Len(s) - 1)) * 10 + DigitVal(s[Len(s)])

\* get_ci_environment with the gitlab test before the jenkins test
get_ci_environment_reordered(e) ==
    IF "GITLAB_CI" \in DOMAIN e /\ e["GITLAB_CI"] # "" THEN "gitlab"
    ELSE IF "JENKINS_HOME" \in DOMAIN e /\ e["JENKINS_HOME"] # "" THEN "jenkins"
    ELSE IF "GITHUB_ACTIONS" \in DOMAIN e /\ e["GITHUB_ACTIONS"] # "" THEN "github"
    ELSE "local"

\* get_ci_environment: os.getenv(name) is tested for truth, so a variable
\* set to the empty string counts as not set
get_ci_environment(e) ==
    IF "JENKINS_HOME" \in DOMAIN e /\ e["JENKINS_HOME"] # "" THEN "jenkins"
    ELSE IF "GITLAB_CI" \in DOMAIN e /\ e["GITLAB_CI"] # "" THEN "gitlab"
    ELSE IF "GITHUB_ACTIONS" \in DOMAIN e /\ e["GITHUB_ACTIONS"] # "" THEN "github"
    ELSE "local"

\* setup_ci_config: the dict it returns; int() raises ValueError on a
\* string that is not a number
setup_ci_config(e) ==
    LET port == Get(e, "APP_PORT", <<"8", "0", "0", "0">>)
        replicas == Get(e, "REPLICAS", <<"3">>)
    IN  IF ~IsInt(port) \/ ~IsInt(replicas)
        THEN [raised |-> "ValueError", config |-> EmptyDict]
        ELSE [raised |-> None,
              config |-> [app_name |-> Get(e, "APP_NAME", "myapp"),
                          docker_registry |->
                              Get(e, "DOCKER_REGISTRY", "localhost:5000"),
                          port |-> ParseInt(port),
                          replicas |-> ParseInt(replicas)]]

\* the branch filter with 'unknown' let through
BuildBranches_unknown == {"main", "master", "unknown"}

\* main: branch = os.getenv('GIT_BRANCH', os.getenv('CI_COMMIT_BRANCH', 'unknown'))
Branch(e) == Get(e, "GIT_BRANCH", Get(e, "CI_COMMIT_BRANCH", "unknown"))

BuildBranches == {"main", "master"}

\* main, up to the branch filter: build on main/master, otherwise skip
Main ==
    /\ prog = "ci"
    /\ pc = "main"
    /\ IF Branch(env) \in BuildBranches
       THEN /\ pc' = "init"
            /\ out' = Append(out, "Building branch")
            /\ exit_status' = exit_status
       ELSE /\ pc' = "exited"
            /\ out' = out \o <<"Building branch", "Skipping build for branch">>
            /\ exit_status' = 0
    /\ UNCHANGED <<prog, env, cfgfile, fs, log, self, image_tag, full_image,
                   git_info, todo, ret, exc>>

----------------------------------------------------------------------------
(* build_automation.py *)

InBuild == prog \in {"ci", "build"}

\* load_config: the parsed file, {} when the file is missing; a file that
\* does not parse raises json.JSONDecodeError, which nothing catches
load_config(f) == IF f.state = "ok" THEN f.data ELSE EmptyDict

\* __init__, first part: self.config, self.build_dir, self.app_name
Init_load_config ==
    /\ InBuild
    /\ pc = "init"
    /\ IF cfgfile.state = "malformed"
       THEN /\ Raise("JSONDecodeError")
            /\ UNCHANGED <<self, out>>
       ELSE /\ self' = [self EXCEPT
                           !.config = load_config(cfgfile),
                           !.build_dir = Get(load_config(cfgfile), "build_dir", "build"),
                           !.app_name = Get(load_config(cfgfile), "app_name", "myapp")]
            /\ out' = IF cfgfile.state = "absent"
                      THEN Append(out, "Config file not found, using defaults")
                      ELSE out
            /\ pc' = "get_version"
            /\ exc' = exc
    /\ UNCHANGED <<prog, env, cfgfile, fs, log, image_tag, full_image,
                   git_info, todo, ret, exit_status>>

GitShortArgv == <<"git", "rev-parse", "--short", "HEAD">>

\* get_version without the strip(): the newline git prints stays
get_version_nostrip(rc, stdout, now) == IF rc = "ok" THEN Join(stdout) ELSE now

\* get_version: the stripped output of git, or a timestamp when git is
\* missing or exits non-zero (bare except)
get_version(rc, stdout, now) == IF rc = "ok" THEN Strip(stdout) ELSE now

\* __init__, second part: self.version = self.get_version()
Init_get_version ==
    /\ InBuild
    /\ pc = "get_version"
    /\ \E rc \in RC, stdout \in GitShortOutputs, now \in Timestamps :
          /\ log' = Append(log, Call(GitShortArgv, rc))
          /\ self' = [self EXCEPT !.version = get_version(rc, stdout, now)]
    /\ pc' = "run_tests"
    /\ UNCHANGED <<prog, env, cfgfile, fs, image_tag, full_image,
                   git_info, todo, ret, exc, exit_status, out>>

PytestArgv == <<"pytest", "tests/", "-v", "--cov=.">>

\* run_tests with its result ignored by run_build
run_tests_ignored(rc) == TRUE

\* run_tests treating a missing pytest like failed tests
run_tests_strict(rc) == rc = "ok"

\* run_tests: False when pytest exits non-zero, True when it passes and
\* also when pytest is not installed
run_tests(rc) == rc # "nonzero"

\* run_build step 1: a failed test gate makes run_build return False
RunTests ==
    /\ InBuild
    /\ pc = "run_tests"
    /\ \E rc \in RC :
          /\ log' = Append(log, Call(PytestArgv, rc))
          /\ out' = Append(out, CASE rc = "ok" -> "Tests passed"
                                  [] rc = "nonzero" -> "Tests failed"
                                  [] rc = "notfound" -> "pytest not found, skipping tests")
          /\ IF run_tests(rc)
             THEN /\ pc' = "docker_build"
                  /\ ret' = ret
             ELSE /\ pc' = "returned"
                  /\ ret' = "False"
    /\ UNCHANGED <<prog, env, cfgfile, fs, self, image_tag, full_image,
                   git_info, todo, exc, exit_status>>

\* the local tag without the version
LocalTag_latest(s) == s.app_name \o ":latest"

\* f"{self.app_name}:{self.version}"
LocalTag(s) == s.app_name \o ":" \o s.version
LatestTag(s) == s.app_name \o ":latest"

\* Guarded without the `if not image_tag / if not full_image` tests of
\* run_build: a non-zero exit is reported and the run goes on
Guarded_unchecked(rc, next) ==
    CASE rc \in {"ok", "nonzero"} -> /\ pc' = next
                                     /\ UNCHANGED <<ret, exc>>
      [] rc = "notfound" -> /\ Raise("FileNotFoundError")
                            /\ ret' = ret

\* what a checked subprocess.run inside `except CalledProcessError` leads
\* to: go on, return None from the function, or an uncaught FileNotFoundError
Guarded(rc, next) ==
    CASE rc = "ok" -> /\ pc' = next
                      /\ UNCHANGED <<ret, exc>>
      [] rc = "nonzero" -> /\ pc' = "returned"
                           /\ ret' = "False"
                           /\ exc' = exc
      [] rc = "notfound" -> /\ Raise("FileNotFoundError")
                            /\ ret' = ret

\* build_docker_image: docker build -t app:version .
DockerBuild ==
    /\ InBuild
    /\ pc = "docker_build"
    /\ \E rc \in RC :
          /\ log' = Append(log, Call(<<"docker", "build", "-t", LocalTag(self), ".">>, rc))
          /\ Guarded(rc, "docker_tag_latest")
          /\ out' = IF rc = "nonzero" THEN Append(out, "Docker build failed") ELSE out
    /\ UNCHANGED <<prog, env, cfgfile, fs, self, image_tag, full_image,
                   git_info, todo, exit_status>>

\* build_docker_image: docker tag app:version app:latest, then return image_tag
DockerTagLatest ==
    /\ InBuild
    /\ pc = "docker_tag_latest"
    /\ \E rc \in RC :
          /\ log' = Append(log, Call(<<"docker", "tag", LocalTag(self), LatestTag(self)>>, rc))
          /\ Guarded(rc, "docker_tag_registry")
          /\ image_tag' = IF rc = "ok" THEN LocalTag(self) ELSE image_tag
          /\ out' = IF rc = "nonzero" THEN Append(out, "Docker build failed") ELSE out
    /\ UNCHANGED <<prog, env, cfgfile, fs, self, full_image,
                   git_info, todo, exit_status>>

\* the reference without the application path
FullImage_registry_only(s, tag) ==
    Get(s.config, "docker_registry", "localhost:5000") \o ":" \o s.version

\* the reference built from a template chosen by platform: gitlab's
\* registry already names the project
FullImage_by_platform(s, tag) ==
    IF get_ci_environment(env) = "gitlab"
    THEN Get(s.config, "docker_registry", "localhost:5000") \o ":" \o s.version
    ELSE Get(s.config, "docker_registry", "localhost:5000") \o "/" \o tag

\* push_to_registry: f"{registry}/{image_tag}"
FullImage(s, tag) == Get(s.config, "docker_registry", "localhost:5000") \o "/" \o tag

\* push_to_registry: docker tag app:version registry/app:version
DockerTagRegistry ==
    /\ InBuild
    /\ pc = "docker_tag_registry"
    /\ \E rc \in RC :
          /\ log' = Append(log, Call(<<"docker", "tag", image_tag, FullImage(self, image_tag)>>, rc))
          /\ Guarded(rc, "docker_push")
          /\ out' = IF rc = "nonzero" THEN Append(out, "Failed to push image") ELSE out
    /\ UNCHANGED <<prog, env, cfgfile, fs, self, image_tag, full_image,
                   git_info, todo, exit_status>>

\* DockerPush returning full_image whatever the push did
DockerPush_always ==
    /\ InBuild
    /\ pc = "docker_push"
    /\ \E rc \in RC :
          /\ log' = Append(log, Call(<<"docker", "push", FullImage(self, image_tag)>>, rc))
          /\ Guarded(rc, "generate_manifests")
          /\ full_image' = FullImage(self, image_tag)
          /\ out' = IF rc = "nonzero" THEN Append(out, "Failed to push image") ELSE out
    /\ UNCHANGED <<prog, env, cfgfile, fs, self, image_tag,
                   git_info, todo, exit_status>>

\* push_to_registry: docker push registry/app:version, then return full_image
DockerPush ==
    /\ InBuild
    /\ pc = "docker_push"
    /\ \E rc \in RC :
          /\ log' = Append(log, Call(<<"docker", "push", FullImage(self, image_tag)>>, rc))
          /\ Guarded(rc, "generate_manifests")
          /\ full_image' = IF rc = "ok" THEN FullImage(self, image_tag) ELSE full_image
          /\ out' = IF rc = "nonzero" THEN Append(out, "Failed to push image") ELSE out
    /\ UNCHANGED <<prog, env, cfgfile, fs, self, image_tag,
                   git_info, todo, exit_status>>

\* generate_kubernetes_manifests: the deployment descriptor
Deployment(s, image_name) ==
    [apiVersion |-> "apps/v1",
     kind |-> "Deployment",
     metadata |-> [name |-> s.app_name \o "-deployment",
                   labels |-> [app |-> s.app_name]],
     spec |-> [replicas |-> Get(s.config, "replicas", 3),
               selector |-> [matchLabels |-> [app |-> s.app_name]],
               template |->
                 [metadata |-> [labels |-> [app |-> s.app_name,
                                            version |-> s.version]],
                  spec |-> [containers |-> <<
                     [name |-> s.app_name,
                      image |-> image_name,
                      ports |-> <<[containerPort |-> Get(s.config, "port", 8000)]>>,
                      env |-> Get(s.config, "env_vars", <<>>),
                      resources |->
                        [requests |-> [memory |-> "256Mi", cpu |-> "250m"],
                         limits |-> [memory |-> "512Mi", cpu |-> "500m"]]] >>]]]]

\* the service descriptor with the default port written in
Service_fixed_port(s) ==
    [apiVersion |-> "v1",
     kind |-> "Service",
     metadata |-> [name |-> s.app_name \o "-service"],
     spec |-> [selector |-> [app |-> s.app_name],
               ports |-> <<[protocol |-> "TCP", port |-> 80, targetPort |-> 8000]>>,
               type |-> "LoadBalancer"]]

\* generate_kubernetes_manifests: the service descriptor
Service(s) ==
    [apiVersion |-> "v1",
     kind |-> "Service",
     metadata |-> [name |-> s.app_name \o "-service"],
     spec |-> [selector |-> [app |-> s.app_name],
               ports |-> <<[protocol |-> "TCP", port |-> 80,
                            targetPort |-> Get(s.config, "port", 8000)]>>,
               type |-> "LoadBalancer"]]

deployment_file(s) == Path(s.build_dir, "deployment", ".yaml")
service_file(s) == Path(s.build_dir, "service", ".yaml")
metadata_file(s) == Path(s.build_dir, "build_metadata", ".json")

\* where generate_kubernetes_manifests can raise: `import yaml`, or the
\* open() of either file
ManifestFailures == {"none", "ImportError", "OSError:deployment", "OSError:service"}

\* run_build step 5: write deployment.yaml and service.yaml to build_dir;
\* run_build has no handler, so an exception ends the run
GenerateManifests ==
    /\ InBuild
    /\ pc = "generate_manifests"
    /\ \E f \in ManifestFailures :
          /\ log' = Append(log, Op("generate_kubernetes_manifests", full_image,
                                   IF f = "none" THEN "ok" ELSE "raised"))
          /\ fs' = CASE f \in {"ImportError", "OSError:deployment"} -> fs
                     [] f = "OSError:service" ->
                            Put(fs, deployment_file(self), Deployment(self, full_image))
                     [] f = "none" ->
                            Put(Put(fs, deployment_file(self), Deployment(self, full_image)),
                                service_file(self), Service(self))
          /\ IF f = "none"
             THEN /\ pc' = "git_commit"
                  /\ out' = Append(out, "Manifests generated")
                  /\ exc' = exc
             ELSE /\ Raise(IF f = "ImportError" THEN f ELSE "OSError")
                  /\ out' = out
    /\ UNCHANGED <<prog, env, cfgfile, self, image_tag, full_image,
                   git_info, todo, ret, exit_status>>

\* get_git_info, first call: git rev-parse HEAD, unchecked; a missing git
\* is caught by the bare except and get_git_info returns {}
MetaGitCommit ==
    /\ InBuild
    /\ pc = "git_commit"
    /\ \E rc \in RC, stdout \in GitCommitOutputs :
          /\ log' = Append(log, Call(<<"git", "rev-parse", "HEAD">>, rc))
          /\ git_info' = CASE rc = "ok" -> [commit |-> Strip(stdout)]
                           [] rc = "nonzero" -> [commit |-> ""]
                           [] rc = "notfound" -> EmptyDict
          /\ pc' = IF rc = "notfound" THEN "write_metadata" ELSE "git_branch"
    /\ UNCHANGED <<prog, env, cfgfile, fs, self, image_tag, full_image,
                   todo, ret, exc, exit_status, out>>

\* get_git_info, second call: git rev-parse --abbrev-ref HEAD
MetaGitBranch ==
    /\ InBuild
    /\ pc = "git_branch"
    /\ \E rc \in RC, stdout \in GitBranchOutputs :
          /\ log' = Append(log, Call(<<"git", "rev-parse", "--abbrev-ref", "HEAD">>, rc))
          /\ git_info' = CASE rc = "ok" -> Put(git_info, "branch", Strip(stdout))
                           [] rc = "nonzero" -> Put(git_info, "branch", "")
                           [] rc = "notfound" -> EmptyDict
    /\ pc' = "write_metadata"
    /\ UNCHANGED <<prog, env, cfgfile, fs, self, image_tag, full_image,
                   todo, ret, exc, exit_status, out>>

\* create_build_metadata: the record written to build_metadata.json
Metadata(s, image_name, now, info) ==
    [app_name |-> s.app_name, version |-> s.version, image |-> image_name,
     build_time |-> now, git_commit |-> info]

\* run_build step 6 and the return: write build_metadata.json, return True
WriteMetadata ==
    /\ InBuild
    /\ pc = "write_metadata"
    /\ \E ok \in BOOLEAN, now \in Timestamps :
          /\ log' = Append(log, Op("create_build_metadata", full_image,
                                   IF ok THEN "ok" ELSE "raised"))
          /\ IF ok
             THEN /\ fs' = Put(fs, metadata_file(self),
                               Metadata(self, full_image, now, git_info))
                  /\ out' = out \o <<"Build metadata saved", "Build completed successfully">>
                  /\ ret' = "True"
                  /\ pc' = "returned"
                  /\ exc' = exc
             ELSE /\ Raise("OSError")
                  /\ UNCHANGED <<fs, out, ret>>
    /\ UNCHANGED <<prog, env, cfgfile, self, image_tag, full_image,
                   git_info, todo, exit_status>>

\* build_automation __main__: sys.exit(0 if success else 1)
BuildExit ==
    /\ prog = "build"
    /\ pc = "returned"
    /\ exit_status' = IF ret = "True" THEN 0 ELSE 1
    /\ pc' = "exited"
    /\ UNCHANGED <<prog, env, cfgfile, fs, log, self, image_tag, full_image,
                   git_info, todo, ret, exc, out>>

\* CiExit with the result of run_build dropped, as deploy_to_k8s does
CiExit_dropped ==
    /\ prog = "ci"
    /\ pc = "returned"
    /\ exit_status' = 0
    /\ out' = Append(out, IF ret = "True" THEN "CI/CD build successful" ELSE "CI/CD build failed")
    /\ pc' = "exited"
    /\ UNCHANGED <<prog, env, cfgfile, fs, log, self, image_tag, full_image,
                   git_info, todo, ret, exc>>

\* ci_integration.main after run_build: report and sys.exit(0) or sys.exit(1)
CiExit ==
    /\ prog = "ci"
    /\ pc = "returned"
    /\ exit_status' = IF ret = "True" THEN 0 ELSE 1
    /\ out' = Append(out, IF ret = "True" THEN "CI/CD build successful" ELSE "CI/CD build failed")
    /\ pc' = "exited"
    /\ UNCHANGED <<prog, env, cfgfile, fs, log, self, image_tag, full_image,
                   git_info, todo, ret, exc>>

\* an exception nobody caught: traceback, exit status 1
Traceback ==
    /\ pc = "raised"
    /\ exit_status' = 1
    /\ pc' = "exited"
    /\ UNCHANGED <<prog, env, cfgfile, fs, log, self, image_tag, full_image,
                   git_info, todo, ret, exc, out>>

----------------------------------------------------------------------------
(* deploy_to_k8s.py *)

\* __main__: KubernetesDeployer(namespace='production'), then deploy('myapp')
DeployNamespace == "production"
DeployAppName == "myapp"

\* KubernetesDeployer.__init__
DeployerInit ==
    /\ prog = "deploy"
    /\ pc = "deployer_init"
    /\ self' = [self EXCEPT !.namespace = DeployNamespace, !.build_dir = "build"]
    /\ pc' = "check_cluster"
    /\ UNCHANGED <<prog, env, cfgfile, fs, log, image_tag, full_image,
                   git_info, todo, ret, exc, exit_status, out>>

\* check_cluster_connection and deploy's test of it: a non-zero exit makes
\* deploy return False; a missing kubectl is not caught
CheckCluster ==
    /\ prog = "deploy"
    /\ pc = "check_cluster"
    /\ \E rc \in RC :
          /\ log' = Append(log, Call(<<"kubectl", "cluster-info">>, rc))
          /\ Guarded(rc, "create_namespace")
          /\ out' = Append(out, CASE rc = "ok" -> "Connected to Kubernetes cluster"
                                  [] rc = "nonzero" -> "Cannot connect to Kubernetes cluster"
                                  [] rc = "notfound" -> "Checking cluster connection")
    /\ UNCHANGED <<prog, env, cfgfile, fs, self, image_tag, full_image,
                   git_info, todo, exit_status>>

\* self.build_dir.glob('*.yaml')
Glob(disk, dir, suffix) == { p \in DOMAIN disk : p.dir = dir /\ p.suffix = suffix }

\* CreateNamespace run with check=True: an existing namespace raises
CreateNamespace_checked ==
    /\ prog = "deploy"
    /\ pc = "create_namespace"
    /\ \E rc \in RC :
          /\ log' = Append(log, Call(<<"kubectl", "create", "namespace", self.namespace>>, rc))
          /\ IF rc # "ok"
             THEN /\ Raise(IF rc = "notfound" THEN "FileNotFoundError"
                                              ELSE "CalledProcessError")
                  /\ todo' = todo
             ELSE /\ todo' = { p \in DOMAIN fs : p.dir = self.build_dir /\ p.suffix = ".yaml" }
                  /\ pc' = "apply"
                  /\ exc' = exc
    /\ UNCHANGED <<prog, env, cfgfile, fs, self, image_tag, full_image,
                   git_info, ret, exit_status, out>>

\* create_namespace: unchecked, so a non-zero exit is ignored; then
\* apply_manifests lists the manifests to apply
CreateNamespace ==
    /\ prog = "deploy"
    /\ pc = "create_namespace"
    /\ \E rc \in RC :
          /\ log' = Append(log, Call(<<"kubectl", "create", "namespace", self.namespace>>, rc))
          /\ IF rc = "notfound"
             THEN /\ Raise("FileNotFoundError")
                  /\ todo' = todo
             ELSE /\ todo' = Glob(fs, self.build_dir, ".yaml")
                  /\ pc' = "apply"
                  /\ exc' = exc
    /\ UNCHANGED <<prog, env, cfgfile, fs, self, image_tag, full_image,
                   git_info, ret, exit_status, out>>

\* Unguarded with check=True forgotten: a non-zero exit goes unnoticed
Unguarded_nocheck(rc, next) ==
    CASE rc \in {"ok", "nonzero"} -> /\ pc' = next
                                     /\ exc' = exc
      [] rc = "notfound" -> Raise("FileNotFoundError")

\* what a checked subprocess.run with no handler leads to
Unguarded(rc, next) ==
    CASE rc = "ok" -> /\ pc' = next
                      /\ exc' = exc
      [] rc = "nonzero" -> Raise("CalledProcessError")
      [] rc = "notfound" -> Raise("FileNotFoundError")

\* ApplyManifest retrying a manifest whose apply exited non-zero
ApplyManifest_retry ==
    /\ prog = "deploy"
    /\ pc = "apply"
    /\ \E m \in todo, rc \in RC :
          /\ log' = Append(log, Call(<<"kubectl", "apply", "-f", PathStr(m),
                                       "-n", self.namespace>>, rc))
          /\ todo' = IF rc = "ok" THEN todo \ {m} ELSE todo
          /\ IF rc = "notfound"
             THEN Raise("FileNotFoundError")
             ELSE UNCHANGED <<pc, exc>>
    /\ UNCHANGED <<prog, env, cfgfile, fs, self, image_tag, full_image,
                   git_info, ret, exit_status, out>>

\* apply_manifests, one turn of the loop: kubectl apply -f <manifest>;
\* glob yields the files in no particular order
ApplyManifest ==
    /\ prog = "deploy"
    /\ pc = "apply"
    /\ \E m \in todo, rc \in RC :
          /\ log' = Append(log, Call(<<"kubectl", "apply", "-f", PathStr(m),
                                       "-n", self.namespace>>, rc))
          /\ todo' = todo \ {m}
          /\ Unguarded(rc, "apply")
    /\ UNCHANGED <<prog, env, cfgfile, fs, self, image_tag, full_image,
                   git_info, ret, exit_status, out>>

\* apply_manifests, end of the loop
ApplyDone ==
    /\ prog = "deploy"
    /\ pc = "apply"
    /\ todo = {}
    /\ out' = Append(out, "Deployment complete")
    /\ pc' = "rollout"
    /\ UNCHANGED <<prog, env, cfgfile, fs, log, self, image_tag, full_image,
                   git_info, todo, ret, exc, exit_status>>

\* wait_for_rollout(f"{app_name}-deployment")
WaitForRollout ==
    /\ prog = "deploy"
    /\ pc = "rollout"
    /\ \E rc \in RC :
          /\ log' = Append(log, Call(<<"kubectl", "rollout", "status",
                                       "deployment/" \o DeployAppName \o "-deployment",
                                       "-n", self.namespace>>, rc))
          /\ Unguarded(rc, "service_info")
          /\ out' = IF rc = "ok" THEN Append(out, "Rollout complete") ELSE out
    /\ UNCHANGED <<prog, env, cfgfile, fs, self, image_tag, full_image,
                   git_info, todo, ret, exit_status>>

\* get_service_info(f"{app_name}-service"), the report and return True
GetServiceInfo ==
    /\ prog = "deploy"
    /\ pc = "service_info"
    /\ \E rc \in RC :
          /\ log' = Append(log, Call(<<"kubectl", "get", "service",
                                       DeployAppName \o "-service",
                                       "-n", self.namespace, "-o", "json">>, rc))
          /\ Unguarded(rc, "returned")
          /\ ret' = IF rc = "ok" THEN "True" ELSE ret
          /\ out' = IF rc = "ok" THEN Append(out, "Deployment successful") ELSE out
    /\ UNCHANGED <<prog, env, cfgfile, fs, self, image_tag, full_image,
                   git_info, todo, exit_status>>

\* deploy_to_k8s __main__: the value of deploy() is dropped and the program
\* runs off its end, so the exit status is 0
DeployExit ==
    /\ prog = "deploy"
    /\ pc = "returned"
    /\ exit_status' = 0
    /\ pc' = "exited"
    /\ UNCHANGED <<prog, env, cfgfile, fs, log, self, image_tag, full_image,
                   git_info, todo, ret, exc, out>>

----------------------------------------------------------------------------
(* Specification *)

EntryPoint(p) ==
    CASE p = "ci" -> "main" [] p = "build" -> "init" [] p = "deploy" -> "deployer_init"

Init ==
    /\ prog \in Programs
    /\ env \in Environments
    /\ cfgfile \in ConfigFiles
    /\ fs \in InitialDisks
    /\ pc = EntryPoint(prog)
    /\ log = <<>>
    /\ self = NoSelf
    /\ image_tag = None
    /\ full_image = None
    /\ git_info = EmptyDict
    /\ todo = {}
    /\ ret = None
    /\ exc = None
    /\ exit_status = -1   \* the process has not exited
    /\ out = <<>>

Next ==
    \/ Main
    \/ Init_load_config
    \/ Init_get_version
    \/ RunTests
    \/ DockerBuild
    \/ DockerTagLatest
    \/ DockerTagRegistry
    \/ DockerPush
    \/ GenerateManifests
    \/ MetaGitCommit
    \/ MetaGitBranch
    \/ WriteMetadata
    \/ BuildExit
    \/ CiExit
    \/ Traceback
    \/ DeployerInit
    \/ CheckCluster
    \/ CreateNamespace
    \/ ApplyManifest
    \/ ApplyDone
    \/ WaitForRollout
    \/ GetServiceInfo
    \/ DeployExit

Spec == Init /\ [][Next]_vars

----------------------------------------------------------------------------
(* Reading the log *)

Tool(e) == IF e.op = "subprocess.run" THEN e.argv[1] ELSE None
Sub(e) == IF e.op = "subprocess.run" THEN e.argv[2] ELSE None

IsDocker(e) == Tool(e) = "docker"
IsPytest(e) == Tool(e) = "pytest"
IsManifestGen(e) == e.op = "generate_kubernetes_manifests"
IsMetadata(e) == e.op = "create_build_metadata"
IsClusterCheck(e) == Tool(e) = "kubectl" /\ Sub(e) = "cluster-info"
IsNamespace(e) == Tool(e) = "kubectl" /\ Sub(e) = "create"
IsApply(e) == Tool(e) = "kubectl" /\ Sub(e) = "apply"
IsRollout(e) == Tool(e) = "kubectl" /\ Sub(e) = "rollout"
IsServiceQuery(e) == Tool(e) = "kubectl" /\ Sub(e) = "get"

\* the pipeline stage an entry of the log belongs to
StageOf(e) ==
    CASE IsPytest(e) -> "TestGate"
      [] IsDocker(e) -> "Publishing"
      [] IsManifestGen(e) -> "ManifestGen"
      [] IsMetadata(e) -> "Metadata"
      [] IsClusterCheck(e) -> "ClusterCheck"
      [] IsNamespace(e) -> "Namespace"
      [] IsApply(e) -> "Deploying"
      [] IsRollout(e) -> "RolloutWait"
      [] IsServiceQuery(e) -> "ServiceQuery"
      [] OTHER -> "VersionControl"

\* a stage's operation failed: the test runner ran and exited non-zero, or
\* the operation of another stage did not succeed.  A missing test runner,
\* the version-control calls and namespace creation are tolerated.
StageFailure(e) ==
    \/ IsPytest(e) /\ e.rc = "nonzero"
    \/ IsDocker(e) /\ e.rc # "ok"
    \/ IsManifestGen(e) /\ e.rc # "ok"
    \/ IsMetadata(e) /\ e.rc # "ok"
    \/ IsClusterCheck(e) /\ e.rc # "ok"
    \/ IsNamespace(e) /\ e.rc = "notfound"
    \/ IsApply(e) /\ e.rc # "ok"
    \/ IsRollout(e) /\ e.rc # "ok"
    \/ IsServiceQuery(e) /\ e.rc # "ok"

\* the stages of the log in order, each once, version control left out
RECURSIVE Stages(_)
Stages(l) ==
    IF l = <<>> THEN <<>>
    ELSE LET rest == Stages(SubSeq(l, 1, Len(l) - 1))
             st == StageOf(l[Len(l)])
         IN  IF st = "VersionControl" THEN rest
             ELSE IF rest # <<>> /\ rest[Len(rest)] = st THEN rest
             ELSE Append(rest, st)

Printed(msg) == \E i \in DOMAIN out : out[i] = msg

----------------------------------------------------------------------------
(* Claims *)

\* C1: once a step of the Publishing stage (docker build, tag, push) has
\* failed, generate_kubernetes_manifests and create_build_metadata are never
\* invoked, no artifact reference exists, and when the step exited non-zero
\* (the publisher returned None) run_build has returned False.
C1_FailFastAfterPublishing ==
    \A i \in DOMAIN log :
        (IsDocker(log[i]) /\ log[i].rc # "ok") =>
            /\ \A j \in DOMAIN log : ~IsManifestGen(log[j]) /\ ~IsMetadata(log[j])
            /\ full_image = None
            /\ ret # "True"
            /\ log[i].rc = "nonzero" => ret = "False" /\ pc \in {"returned", "exited"}

C1_Witness ==
    /\ pc = "exited"
    /\ ret = "False"
    /\ \E i \in DOMAIN log : IsDocker(log[i]) /\ Sub(log[i]) = "push" /\ log[i].rc = "nonzero"

\* C2: a failed stage operation is the last operation of the run: after it
\* no tool and no later stage is invoked.
C2_GeneralFailFast ==
    \A i \in DOMAIN log : StageFailure(log[i]) => i = Len(log)

C2_Witness ==
    /\ pc = "exited"
    /\ Len(log) >= 4
    /\ IsApply(log[Len(log)]) /\ log[Len(log)].rc = "nonzero"
    /\ IsApply(log[Len(log) - 1])

\* C3: in a ci run whose branch is neither main nor master nothing is ever
\* invoked, no BuildAutomation object is made, and the run ends skipped with
\* exit status 0.
C3_BranchSkip ==
    (prog = "ci" /\ Branch(env) \notin {"main", "master"}) =>
        /\ log = <<>>
        /\ self = NoSelf
        /\ pc \in {"main", "exited"}
        /\ pc = "exited" => /\ exit_status = 0
                            /\ Printed("Skipping build for branch")
                            /\ ~Printed("CI/CD build successful")

C3_Witness ==
    /\ prog = "ci"
    /\ pc = "exited"
    /\ Branch(env) = "unknown"

\* every entry of the log that belongs to a stage succeeded; a missing
\* test runner and a refused namespace creation count as passed
AllStagesPassed == \A i \in DOMAIN log : ~StageFailure(log[i])

BuildStages == <<"TestGate", "Publishing", "ManifestGen", "Metadata">>
DeployStages ==
    <<"ClusterCheck", "Namespace", "Deploying", "RolloutWait", "ServiceQuery">>
DeployStagesNoManifest == <<"ClusterCheck", "Namespace", "RolloutWait", "ServiceQuery">>

CiSucceeded ==
    prog = "ci" /\ pc = "exited" /\ exit_status = 0 /\ Printed("CI/CD build successful")

C5_TestGateTolerance ==
    \A i \in DOMAIN log :
        IsPytest(log[i]) =>
            /\ log[i].rc = "notfound" =>
                  /\ Printed("pytest not found, skipping tests")
                  /\ ~Printed("Tests failed")
                  /\ IF i = Len(log)
                     THEN pc = "docker_build" /\ ret = None
                     ELSE IsDocker(log[i + 1]) /\ Sub(log[i + 1]) = "build"
            /\ (i = Len(log) /\ ret = "False") <=> log[i].rc = "nonzero"

C5_Witness ==
    /\ \E i \in DOMAIN log : IsPytest(log[i]) /\ log[i].rc = "notfound"
    /\ \E i \in DOMAIN log : IsDocker(log[i]) /\ Sub(log[i]) = "build"

\* C6: the ci program (and build_automation run as a program) exits with 0
\* exactly when the branch was skipped or every stage of run_build passed,
\* and with 1 when a stage failed.
C6_CiExitStatus ==
    (InBuild /\ pc = "exited") =>
        /\ exit_status \in {0, 1}
        /\ exit_status = 0 <=>
              \/ prog = "ci" /\ Branch(env) \notin {"main", "master"}
              \/ Stages(log) = BuildStages /\ AllStagesPassed
        /\ (\E i \in DOMAIN log : StageFailure(log[i])) => exit_status = 1

C6_Witness ==
    /\ prog = "ci"
    /\ pc = "exited"
    /\ exit_status = 1
    /\ ret = "False"
    /\ IsPytest(log[Len(log)])

\* C7: the deploy program exits with 1 whenever a deploy stage failed.
C7_DeployExitStatus ==
    (prog = "deploy" /\ pc = "exited"
        /\ (ret = "False" \/ \E i \in DOMAIN log : StageFailure(log[i])))
    => exit_status = 1

\* C8: the docker invocations of a run are, in order, a prefix of
\* build app:version, tag app:latest, tag registry/app:version,
\* push registry/app:version, and every one but the last made has succeeded.
C8_PublisherOrder ==
    LET d == SelectSeq(log, IsDocker)
        app == Get(self.config, "app_name", "myapp")
        registry == Get(self.config, "docker_registry", "localhost:5000")
        local == app \o ":" \o self.version
        remote == registry \o "/" \o app \o ":" \o self.version
        expected == << <<"docker", "build", "-t", local, ".">>,
                       <<"docker", "tag", local, app \o ":latest">>,
                       <<"docker", "tag", local, remote>>,
                       <<"docker", "push", remote>> >>
    IN  /\ Len(d) <= 4
        /\ \A i \in 1..Len(d) :
              /\ d[i].argv = expected[i]
              /\ i < Len(d) => d[i].rc = "ok"
        /\ \A i \in DOMAIN log :
              (IsDocker(log[i]) /\ log[i].rc # "ok") => d[Len(d)] = log[i]

C8_Witness ==
    /\ Len(SelectSeq(log, IsDocker)) = 4
    /\ "docker_registry" \in DOMAIN self.config
    /\ \A i \in DOMAIN log : IsDocker(log[i]) => log[i].rc = "ok"

Pushed(ref) == \E i \in DOMAIN log : log[i] = Call(<<"docker", "push", ref>>, "ok")

\* C9: the reference run_build holds, the one given to manifest generation
\* and metadata creation, and the one written by this run into the
\* deployment descriptor and the build metadata, has been pushed
\* successfully in this run; after a failed publish step there is none.
C9_ReferenceOnlyAfterPush ==
    /\ full_image # None => Pushed(full_image)
    /\ \A i \in DOMAIN log :
          /\ (IsManifestGen(log[i]) \/ IsMetadata(log[i])) => Pushed(log[i].argv[1])
          /\ (IsDocker(log[i]) /\ log[i].rc # "ok") => full_image = None
    /\ \A p \in DOMAIN fs :
          /\ (fs[p] # Stale /\ p.stem = "deployment") =>
                Pushed(fs[p].spec.template.spec.containers[1].image)
          /\ (fs[p] # Stale /\ p.stem = "build_metadata") => Pushed(fs[p].image)

C9_Witness ==
    /\ full_image # None
    /\ Path(self.build_dir, "deployment", ".yaml") \in DOMAIN fs
    /\ Path(self.build_dir, "build_metadata", ".json") \in DOMAIN fs
    /\ fs[Path(self.build_dir, "build_metadata", ".json")] # Stale

\* the value the configuration resolver is specified to produce: the
\* environment override, else the config source, else the default
Resolved(e, conf, var, key, default) ==
    IF var \in DOMAIN e THEN e[var] ELSE Get(conf, key, default)
ResolvedInt(e, conf, var, key, default) ==
    IF var \in DOMAIN e THEN ParseInt(e[var]) ELSE Get(conf, key, default)

\* C10: the values the publish and manifest stages use are the environment
\* override when set, else the config-source value, else the default.
C10_ConfigPrecedence ==
    (InBuild /\ full_image # None /\ setup_ci_config(env).raised = None) =>
        LET conf == load_config(cfgfile)
            app == Resolved(env, conf, "APP_NAME", "app_name", "myapp")
            registry == Resolved(env, conf, "DOCKER_REGISTRY", "docker_registry",
                                 "localhost:5000")
            port == ResolvedInt(env, conf, "APP_PORT", "port", 8000)
            replicas == ResolvedInt(env, conf, "REPLICAS", "replicas", 3)
        IN  /\ full_image = registry \o "/" \o app \o ":" \o self.version
            /\ Deployment(self, full_image).spec.replicas = replicas
            /\ Service(self).spec.ports[1].targetPort = port
            /\ Service(self).spec.selector.app = app

\* C11: with APP_PORT or REPLICAS set to something that is not a number,
\* the ci run fails at configuration resolution and enters no stage: no
\* test, build, push or manifest generation happens.
C11_MalformedOverrideStops ==
    (prog = "ci" /\ setup_ci_config(env).raised # None) =>
        /\ \A i \in DOMAIN log : StageOf(log[i]) = "VersionControl"
        /\ full_image = None
        /\ ret # "True"
        /\ pc = "exited" => exit_status = 1

\* the branch variable each platform sets for its jobs
NativeBranchVar(platform) ==
    CASE platform = "jenkins" -> "GIT_BRANCH"
      [] platform = "gitlab" -> "CI_COMMIT_BRANCH"
      [] platform = "github" -> "GITHUB_REF_NAME"

\* C12: on jenkins, gitlab and github the branch the filter uses is the
\* platform's own branch variable, so a ci run whose native branch variable
\* says main or master is not skipped.
C12_NativeBranch ==
    LET platform == get_ci_environment(env)
    IN  (prog = "ci" /\ pc # "main" /\ platform # "local"
            /\ NativeBranchVar(platform) \in DOMAIN env
            /\ env[NativeBranchVar(platform)] \in {"main", "master"}) =>
            /\ Branch(env) = env[NativeBranchVar(platform)]
            /\ ~Printed("Skipping build for branch")

----------------------------------------------------------------------------
(* The functions of ci_integration.py called on their own *)

\* values a platform signal may have: a path, "true", or the empty string
SignalEnvs ==
    { Merge(Merge(j, g), h) :
        j \in { EmptyDict, [JENKINS_HOME |-> "/var/jenkins"], [JENKINS_HOME |-> ""] },
        g \in { EmptyDict, [GITLAB_CI |-> "true"], [GITLAB_CI |-> ""] },
        h \in { EmptyDict, [GITHUB_ACTIONS |-> "true"], [GITHUB_ACTIONS |-> ""] } }

PortEnvs ==
    { EmptyDict, [APP_PORT |-> <<"9", "0", "9", "0">>], [APP_PORT |-> <<"a", "b", "c">>] }

InitResolve ==
    /\ prog = "resolve"
    /\ env \in { Merge(sg, po) : sg \in SignalEnvs, po \in PortEnvs }
    /\ cfgfile = [state |-> "absent", data |-> EmptyDict]
    /\ fs = EmptyDict
    /\ pc = "get_ci_environment"
    /\ log = <<>>
    /\ self = NoSelf
    /\ image_tag = None
    /\ full_image = None
    /\ git_info = EmptyDict
    /\ todo = {}
    /\ ret = None
    /\ exc = None
    /\ exit_status = -1
    /\ out = <<>>

\* a call of get_ci_environment()
CallGetCiEnvironment ==
    /\ prog = "resolve"
    /\ pc = "get_ci_environment"
    /\ ret' = get_ci_environment(env)
    /\ pc' = "setup_ci_config"
    /\ UNCHANGED <<prog, env, cfgfile, fs, log, self, image_tag, full_image,
                   git_info, todo, exc, exit_status, out>>

\* a call of setup_ci_config(): the config it returns, or ValueError
CallSetupCiConfig ==
    /\ prog = "resolve"
    /\ pc = "setup_ci_config"
    /\ IF setup_ci_config(env).raised # None
       THEN /\ Raise(setup_ci_config(env).raised)
            /\ UNCHANGED <<self, out>>
       ELSE /\ self' = [self EXCEPT !.config = setup_ci_config(env).config]
            /\ out' = Append(out, "Running in " \o get_ci_environment(env) \o " environment")
            /\ pc' = "returned"
            /\ exc' = exc
    /\ UNCHANGED <<prog, env, cfgfile, fs, log, image_tag, full_image,
                   git_info, todo, ret, exit_status>>

NextResolve ==
    \/ CallGetCiEnvironment
    \/ CallSetupCiConfig

SpecResolve == InitResolve /\ [][NextResolve]_vars

Signals == <<"JENKINS_HOME", "GITLAB_CI", "GITHUB_ACTIONS">>
SignalTags == <<"jenkins", "gitlab", "github">>

\* the tag of the first signal, in the fixed order, that satisfies On
FirstSignal(On(_)) ==
    IF \E i \in 1..3 : On(Signals[i])
    THEN SignalTags[CHOOSE i \in 1..3 : On(Signals[i]) /\ \A j \in 1..(i - 1) : ~On(Signals[j])]
    ELSE "local"

GetCiEnvironmentReturned == prog = "resolve" /\ pc # "get_ci_environment"

\* C13 as stated: get_ci_environment returns the tag of the first signal
\* variable that is present.
C13_FirstPresentSignal ==
    GetCiEnvironmentReturned =>
        LET Present(v) == v \in DOMAIN env
        IN  ret = FirstSignal(Present)

\* C13, amended: get_ci_environment returns the tag of the first signal
\* variable, in the order JENKINS_HOME, GITLAB_CI, GITHUB_ACTIONS, that is
\* set to a non-empty value, and local when there is none; it never fails
\* and its result is one of jenkins, gitlab, github, local.
C13_FirstNonEmptySignal ==
    GetCiEnvironmentReturned =>
        LET NonEmpty(v) == v \in DOMAIN env /\ env[v] # ""
        IN  /\ ret = FirstSignal(NonEmpty)
            /\ ret \in {"jenkins", "gitlab", "github", "local"}
            /\ pc = "setup_ci_config" => exc = None

C13_Witness ==
    /\ GetCiEnvironmentReturned
    /\ ret = "gitlab"
    /\ "JENKINS_HOME" \in DOMAIN env
    /\ "GITHUB_ACTIONS" \in DOMAIN env /\ env["GITHUB_ACTIONS"] # ""

----------------------------------------------------------------------------
(* Claims about the resolved configuration *)

HostedBuild ==
    /\ InBuild
    /\ full_image # None
    /\ get_ci_environment(env) \in {"jenkins", "gitlab", "github"}

VersionResolved ==
    InBuild =>
        IF log = <<>>
        THEN self.version = None
        ELSE /\ log[1].argv = GitShortArgv
             /\ self.version # None
             /\ log[1].rc = "ok" => self.version = "abc1234"
             /\ log[1].rc # "ok" => self.version = "20240101120000"
             /\ Len(log) = 1 => pc = "run_tests" /\ exc = None /\ ret = None

\* C15: when git is missing or exits non-zero the version is the timestamp
\* and the run goes on to the test gate; when git succeeds the version is
\* the short hash it printed.  The version is set before any stage starts
\* and never changes afterwards.
C15_VersionFallback ==
    /\ []VersionResolved
    /\ [][self.version # None => self'.version = self.version]_vars

C15_Witness ==
    /\ InBuild
    /\ log # <<>>
    /\ log[1].rc = "notfound"
    /\ self.version = "20240101120000"
    /\ full_image # None

\* the default scenario: no CI platform, no overrides, no config file, git
\* prints abc1234, and the build succeeds
DefaultScenario ==
    /\ InBuild
    /\ get_ci_environment(env) = "local"
    /\ DOMAIN env \cap DOMAIN OverrideEnv = {}
    /\ cfgfile.state = "absent"
    /\ log # <<>> /\ log[1] = Call(GitShortArgv, "ok")
    /\ ret = "True"

DefaultDeployment == fs[Path("build", "deployment", ".yaml")]

DefaultOutcome ==
    /\ self.version = "abc1234"
    /\ full_image = "localhost:5000/myapp:abc1234"
    /\ Path("build", "deployment", ".yaml") \in DOMAIN fs
    /\ DefaultDeployment.spec.replicas = 3
    /\ Len(DefaultDeployment.spec.template.spec.containers) = 1
    /\ DefaultDeployment.spec.template.spec.containers[1].image
          = "localhost:5000/myapp:abc1234"
    /\ DefaultDeployment.spec.template.spec.containers[1].ports
          = <<[containerPort |-> 8000]>>

----------------------------------------------------------------------------
(* A build followed by a deploy on the same disk *)

InitPipeline ==
    /\ prog \in {"ci", "build"}
    /\ env \in { EmptyDict, [GIT_BRANCH |-> "main"] }
    /\ cfgfile \in ConfigFiles
    /\ fs \in InitialDisks
    /\ pc = EntryPoint(prog)
    /\ log = <<>>
    /\ self = NoSelf
    /\ image_tag = None
    /\ full_image = None
    /\ git_info = EmptyDict
    /\ todo = {}
    /\ ret = None
    /\ exc = None
    /\ exit_status = -1
    /\ out = <<>>

\* deploy_to_k8s.py is started once the build has exited with status 0: a
\* new process, with the files the build left on disk
StartDeploy ==
    /\ InBuild
    /\ pc = "exited"
    /\ exit_status = 0
    /\ ret = "True"
    /\ prog' = "deploy"
    /\ pc' = EntryPoint("deploy")
    /\ log' = <<>>
    /\ self' = NoSelf
    /\ image_tag' = None
    /\ full_image' = None
    /\ git_info' = EmptyDict
    /\ ret' = None
    /\ exit_status' = -1
    /\ out' = <<>>
    /\ UNCHANGED <<env, cfgfile, fs, todo, exc>>

NextPipeline ==
    \/ Next
    \/ StartDeploy

SpecPipeline == InitPipeline /\ [][NextPipeline]_vars

\* the manifests the build wrote: the .yaml files whose content is its own
GeneratedManifests ==
    { PathStr(p) : p \in { q \in DOMAIN fs : q.suffix = ".yaml" /\ fs[q] # Stale } }

\* C17: once a deploy that follows a build has finished applying, kubectl
\* apply has been invoked exactly once for each manifest the build
\* generated and for no other file.
C17_AppliesExactlyGenerated ==
    (prog = "deploy" /\ Printed("Deployment complete")) =>
        LET applied == SelectSeq(log, IsApply)
        IN  /\ \A g \in GeneratedManifests :
                  Cardinality({ i \in DOMAIN applied : applied[i].argv[4] = g }) = 1
            /\ \A i \in DOMAIN applied : applied[i].argv[4] \in GeneratedManifests

----------------------------------------------------------------------------
(* Claims about the deploy program *)

\* C18: a namespace creation that exits non-zero (the namespace exists) does
\* not stop deploy: the next operation is the application of a manifest or,
\* with none to apply, the rollout wait.  A failed reachability check, apply
\* or rollout wait ends deploy without success.
C18_NamespaceTolerance ==
    \A i \in DOMAIN log :
        /\ (IsNamespace(log[i]) /\ log[i].rc = "nonzero") =>
              /\ i = Len(log) => pc \in {"apply", "rollout"} /\ exc = None /\ ret = None
              /\ i < Len(log) => IsApply(log[i + 1]) \/ IsRollout(log[i + 1])
        /\ ((IsClusterCheck(log[i]) \/ IsApply(log[i]) \/ IsRollout(log[i]))
                /\ log[i].rc # "ok") =>
              /\ i = Len(log)
              /\ pc \in {"returned", "raised", "exited"}
              /\ ret # "True"
              /\ ~Printed("Deployment successful")

C18_Witness ==
    /\ prog = "deploy"
    /\ ret = "True"
    /\ \E i \in DOMAIN log : IsNamespace(log[i]) /\ log[i].rc = "nonzero"
    /\ \E i \in DOMAIN log : IsApply(log[i])

----------------------------------------------------------------------------
(* Claims about the manifests *)

ManifestsWritten ==
    /\ InBuild
    /\ deployment_file(self) \in DOMAIN fs /\ fs[deployment_file(self)] # Stale
    /\ service_file(self) \in DOMAIN fs /\ fs[service_file(self)] # Stale

\* C19: in the manifests a build writes, the service's selector equals the
\* deployment's matchLabels and is carried by the pod template's labels, the
\* service has one port, 80, whose target is the container port the
\* deployment declares, and the service type is LoadBalancer.
C19_ManifestConsistency ==
    ManifestsWritten =>
        LET d == fs[deployment_file(self)]
            sv == fs[service_file(self)]
            labels == d.spec.template.metadata.labels
        IN  /\ sv.spec.selector = d.spec.selector.matchLabels
            /\ sv.spec.selector # EmptyDict
            /\ \A k \in DOMAIN sv.spec.selector :
                  k \in DOMAIN labels /\ labels[k] = sv.spec.selector[k]
            /\ Len(sv.spec.ports) = 1
            /\ sv.spec.ports[1].port = 80
            /\ Len(d.spec.template.spec.containers) = 1
            /\ Len(d.spec.template.spec.containers[1].ports) = 1
            /\ sv.spec.ports[1].targetPort
                  = d.spec.template.spec.containers[1].ports[1].containerPort
            /\ sv.spec.type = "LoadBalancer"

C19_Witness ==
    /\ ManifestsWritten
    /\ fs[service_file(self)].spec.ports[1].targetPort = 7000
    /\ fs[service_file(self)].spec.selector.app = "cfgapp"

----------------------------------------------------------------------------
(* Termination *)

\* the program is sequential and every external call returns: whenever a
\* step is possible, one is taken
FairSpec == Spec /\ WF_vars(Next)

\* no operation is performed twice, and no stage is entered twice
NoRepeat ==
    /\ \A i, j \in DOMAIN log :
          (log[i].op = log[j].op /\ log[i].argv = log[j].argv) => i = j
    /\ \A i, j \in DOMAIN Stages(log) : Stages(log)[i] = Stages(log)[j] => i = j

Skipped == Printed("Skipping build for branch")
Succeeded == ret = "True"
Failed == ret = "False" \/ exc # None

\* a run that has ended has exactly one outcome
OneOutcome ==
    pc = "exited" =>
        /\ Skipped \/ Succeeded \/ Failed
        /\ ~(Skipped /\ Succeeded) /\ ~(Skipped /\ Failed) /\ ~(Succeeded /\ Failed)

\* C20: every run of the ci, build and deploy programs ends, with exactly
\* one of the outcomes Skipped, Succeeded, Failed, and performs no operation
\* and no stage twice.
C20_Termination ==
    /\ <>(pc = "exited")
    /\ [](NoRepeat /\ OneOutcome)

C20_Witness ==
    /\ prog = "deploy"
    /\ pc = "exited"
    /\ Succeeded
    /\ Len(SelectSeq(log, IsApply)) >= 2

====
